---- MODULE Spec2Model ----
(***************************************************************************)
(* Value objects (Currency, Money, SupplierId, ProductId, DateTime) and    *)
(* the Supplier aggregate root of the supply-chain bounded context.        *)
(*                                                                         *)
(* JavaScript numbers are modelled as tagged records: a finite number      *)
(* carries its value in thousandths (v = 1005 is 1.005), and NaN,          *)
(* Infinity and -Infinity are separate kinds.  The finite range is         *)
(* -MAX_VALUE .. MAX_VALUE; arithmetic leaving it yields an infinity, as   *)
(* IEEE-754 doubles do beyond Number.MAX_VALUE.                            *)
(***************************************************************************)
EXTENDS Integers, Sequences, FiniteSets, TLC

VARIABLES moneys, moneyResult, ids, idResult,
          dateHeap, callerDates, dateTimes, dateTimeResult,
          supplier, supplierResult

moneyVars == <<moneys, moneyResult>>
idVars == <<ids, idResult>>
dateTimeVars == <<dateHeap, callerDates, dateTimes, dateTimeResult>>
supplierVars == <<supplier, supplierResult>>
vars == <<moneys, moneyResult, ids, idResult,
          dateHeap, callerDates, dateTimes, dateTimeResult,
          supplier, supplierResult>>

\* ------------------------------------------------------------------------
\* Bounds of the model
\* ------------------------------------------------------------------------

\* Largest finite number, in whole units (stands for Number.MAX_VALUE).
MaxUnits == 4

\* Number of Money objects ever allocated in one behaviour.
MaxMoneys == 3

\* Number of identifier objects ever allocated in one behaviour.
MaxIds == 3

\* Number of Date objects and of DateTime objects ever allocated.
MaxDates == 3
MaxDateTimes == 2

\* ------------------------------------------------------------------------
\* JavaScript numbers
\* ------------------------------------------------------------------------

MAX_VALUE == MaxUnits * 1000

Num(v) == [t |-> "number", k |-> "finite", v |-> v]
NaN == [t |-> "number", k |-> "NaN", v |-> 0]
PosInfinity == [t |-> "number", k |-> "Infinity", v |-> 0]
NegInfinity == [t |-> "number", k |-> "-Infinity", v |-> 0]
\* A value that is not of type number (the string '5').
NotANumber == [t |-> "string", k |-> "5", v |-> 0]

\* The double nearest to the exact result r (in thousandths).
ToDouble(r) ==
    IF r > MAX_VALUE THEN PosInfinity
    ELSE IF r < -MAX_VALUE THEN NegInfinity
    ELSE Num(r)

\* Number.isFinite: no coercion, false for every non-number.
NumberIsFinite(x) == x.t = "number" /\ x.k = "finite"

\* a + b and a * b on finite numbers.
NumberAdd(a, b) == ToDouble(a.v + b.v)
NumberMultiply(a, b) == ToDouble((a.v * b.v) \div 1000)

\* amount.toFixed(2): the count n of hundredths with n / 100 nearest to the
\* amount, the larger n on a tie.
ToFixed2(x) == (x.v + 5) \div 10

\* Number(string) of a toFixed(2) rendering of n hundredths.
NumberOfFixed2(n) == Num(n * 10)

\* ------------------------------------------------------------------------
\* Currency
\* ------------------------------------------------------------------------

VALID_CODES == {"USD", "EUR", "GBP", "JPY"}

CurrencyObject(code) == [t |-> "Currency", code |-> code]
NoCurrency == CurrencyObject("")

\* new Currency(code): the object, or ValidationError (ok = FALSE).
CurrencyConstructor(code) ==
    IF code \notin VALID_CODES
    THEN [ok |-> FALSE, obj |-> NoCurrency]
    ELSE [ok |-> TRUE, obj |-> CurrencyObject(code)]

InstanceOfCurrency(x) == x.t = "Currency"

CurrencyEqualsIgnoringCode(this, other) == InstanceOfCurrency(other)

\* this.equals(other) of Currency.
CurrencyEquals(this, other) ==
    InstanceOfCurrency(other) /\ this.code = other.code

\* ------------------------------------------------------------------------
\* Money
\* ------------------------------------------------------------------------

MoneyObject(amount, currency) == [amount |-> amount, currency |-> currency]
NoMoney == MoneyObject(Num(0), NoCurrency)

MoneyRoundOmitted(amount) == amount

\* Number(amount.toFixed(2)) of the constructor.
MoneyRound(amount) == NumberOfFixed2(ToFixed2(amount))

\* new Money({amount, currency}): the object, or ValidationError.
MoneyConstructor(amount, currency) ==
    IF ~NumberIsFinite(amount) \/ amount.v < 0
    THEN [ok |-> FALSE, obj |-> NoMoney]
    ELSE IF ~InstanceOfCurrency(currency)
    THEN [ok |-> FALSE, obj |-> NoMoney]
    ELSE [ok |-> TRUE, obj |-> MoneyObject(MoneyRound(amount), currency)]

\* An argument of add: a reference to an allocated Money, or a value that
\* is no Money (null, a number, a plain object).
MoneyRef(i) == [t |-> "Money", ref |-> i]
NonMoneyArgs == {[t |-> "null", ref |-> 0], [t |-> "number", ref |-> 0],
                 [t |-> "object", ref |-> 0]}
InstanceOfMoney(x) == x.t = "Money"

\* The guard of add: true when add throws before computing anything.
AddRejects(this, other) ==
    ~InstanceOfMoney(other)
        \/ ~CurrencyEquals(moneys[this].currency, moneys[other.ref].currency)

MultiplyRejectsZeroToo(multiplier) ==
    ~NumberIsFinite(multiplier) \/ multiplier.v <= 0

\* The guard of multiply.
MultiplyRejects(multiplier) ==
    ~NumberIsFinite(multiplier) \/ multiplier.v < 0

NoArg == [t |-> "none", ref |-> 0]
MoneyCall(op, this, other, number, currency, threw, ret) ==
    [op |-> op, this |-> this, other |-> other, number |-> number,
     currency |-> currency, threw |-> threw, ret |-> ret]

\* Allocation of the object a constructor call made, or nothing when it
\* threw; ret is the reference handed back to the caller.
Allocate(made) == IF made.ok THEN Append(moneys, made.obj) ELSE moneys

AmountInputs == {Num(0), Num(4), Num(5), Num(1000), Num(1005),
                 Num(MAX_VALUE), Num(-1000), NaN, PosInfinity, NotANumber}
MultiplierInputs == {Num(0), Num(500), Num(1000), Num(1500),
                     Num(-500), NaN, PosInfinity, NotANumber}
CodeInputs == {"USD", "EUR", "XXX"}
\* What a caller can pass as currency: every Currency it could construct,
\* or something that is no Currency.
CurrencyInputs ==
    {CurrencyConstructor(c).obj : c \in {c \in CodeInputs : CurrencyConstructor(c).ok}}
        \cup {[t |-> "string", code |-> "USD"]}

NewMoney(amount, currency) ==
    LET made == MoneyConstructor(amount, currency) IN
    /\ Len(moneys) < MaxMoneys
    /\ UNCHANGED <<idVars, dateTimeVars, supplierVars>>
    /\ moneys' = Allocate(made)
    /\ moneyResult' = MoneyCall("new", 0, NoArg, amount, currency, ~made.ok,
                                IF made.ok THEN Len(moneys) + 1 ELSE 0)

\* this.add(other)
Add(this, other) ==
    /\ Len(moneys) < MaxMoneys
    /\ UNCHANGED <<idVars, dateTimeVars, supplierVars>>
    /\ IF AddRejects(this, other)
       THEN /\ moneys' = moneys
            /\ moneyResult' = MoneyCall("add", this, other, Num(0), NoCurrency, TRUE, 0)
       ELSE LET made == MoneyConstructor(
                            NumberAdd(moneys[this].amount, moneys[other.ref].amount),
                            moneys[this].currency) IN
            /\ moneys' = Allocate(made)
            /\ moneyResult' = MoneyCall("add", this, other, Num(0), NoCurrency, ~made.ok,
                                        IF made.ok THEN Len(moneys) + 1 ELSE 0)

\* this.multiply(multiplier)
Multiply(this, multiplier) ==
    /\ Len(moneys) < MaxMoneys
    /\ UNCHANGED <<idVars, dateTimeVars, supplierVars>>
    /\ IF MultiplyRejects(multiplier)
       THEN /\ moneys' = moneys
            /\ moneyResult' = MoneyCall("multiply", this, NoArg, multiplier, NoCurrency, TRUE, 0)
       ELSE LET made == MoneyConstructor(
                            NumberMultiply(moneys[this].amount, multiplier),
                            moneys[this].currency) IN
            /\ moneys' = Allocate(made)
            /\ moneyResult' = MoneyCall("multiply", this, NoArg, multiplier, NoCurrency,
                                        ~made.ok, IF made.ok THEN Len(moneys) + 1 ELSE 0)

MoneyInit ==
    /\ moneys = <<>>
    /\ moneyResult = MoneyCall("none", 0, NoArg, Num(0), NoCurrency, FALSE, 0)

MoneyNext ==
    \/ \E amount \in AmountInputs, currency \in CurrencyInputs :
           NewMoney(amount, currency)
    \/ \E this \in DOMAIN moneys, other \in {MoneyRef(i) : i \in DOMAIN moneys} \cup NonMoneyArgs :
           Add(this, other)
    \/ \E this \in DOMAIN moneys, multiplier \in MultiplierInputs :
           Multiply(this, multiplier)

\* ------------------------------------------------------------------------
\* Identifiers (SupplierId, ProductId)
\* ------------------------------------------------------------------------

UUID_A == "550e8400-e29b-41d4-a716-446655440000"
UUID_A_UPPER == "550E8400-E29B-41D4-A716-446655440000"
UUID_B == "6ba7b810-9dad-41d1-80b4-00c04fd430c8"

\* What a caller passes as a UUID: valid ones (two spellings of one UUID
\* among them) and strings that are none.
UuidInputs == {UUID_A, UUID_A_UPPER, UUID_B, "not-a-uuid", ""}

\* validate() of the uuid package.
isValidUUID(value) == value \in {UUID_A, UUID_A_UPPER, UUID_B}

\* uuidv4() of the uuid package: some valid UUID.
generateUUID == {u \in UuidInputs : isValidUUID(u)}

IdObject(cls, value) == [cls |-> cls, value |-> value]

\* An argument of equals: a reference to an allocated identifier, or a
\* value that is none (null, the bare UUID string).
IdRef(i) == [t |-> "ref", ref |-> i, s |-> ""]
NonIdArgs == {[t |-> "null", ref |-> 0, s |-> ""], [t |-> "string", ref |-> 0, s |-> UUID_A]}

InstanceOf(other, cls) == other.t = "ref" /\ ids[other.ref].cls = cls

SupplierIdEqualsByValueOnly(this, other) ==
    other.t = "ref" /\ ids[this].value = ids[other.ref].value

\* this.equals(other) of SupplierId.
SupplierIdEquals(this, other) ==
    InstanceOf(other, "SupplierId") /\ ids[this].value = ids[other.ref].value

\* this.equals(other) of ProductId.
ProductIdEquals(this, other) ==
    InstanceOf(other, "ProductId") /\ ids[this].value = ids[other.ref].value

IdCall(op, this, other, value, threw, ret, equal) ==
    [op |-> op, this |-> this, other |-> other, value |-> value,
     threw |-> threw, ret |-> ret, equal |-> equal]
NoIdArg == [t |-> "none", ref |-> 0, s |-> ""]

\* new SupplierId(value) and new ProductId(value)
NewId(cls, value) ==
    /\ Len(ids) < MaxIds
    /\ IF ~isValidUUID(value)
       THEN /\ ids' = ids
            /\ idResult' = IdCall("new", 0, NoIdArg, value, TRUE, 0, FALSE)
       ELSE /\ ids' = Append(ids, IdObject(cls, value))
            /\ idResult' = IdCall("new", 0, NoIdArg, value, FALSE, Len(ids) + 1, FALSE)
    /\ UNCHANGED <<moneyVars, dateTimeVars, supplierVars>>

\* SupplierId.generate() and ProductId.generate()
Generate(cls) ==
    /\ Len(ids) < MaxIds
    /\ \E value \in generateUUID :
          IF ~isValidUUID(value)
          THEN /\ ids' = ids
               /\ idResult' = IdCall("generate", 0, NoIdArg, value, TRUE, 0, FALSE)
          ELSE /\ ids' = Append(ids, IdObject(cls, value))
               /\ idResult' = IdCall("generate", 0, NoIdArg, value, FALSE, Len(ids) + 1, FALSE)
    /\ UNCHANGED <<moneyVars, dateTimeVars, supplierVars>>

\* this.equals(other), dispatched on the class of this
IdEquals(this, other) ==
    /\ ids' = ids
    /\ idResult' = IdCall("equals", this, other, "", FALSE, 0,
                          IF ids[this].cls = "SupplierId"
                          THEN SupplierIdEquals(this, other)
                          ELSE ProductIdEquals(this, other))
    /\ UNCHANGED <<moneyVars, dateTimeVars, supplierVars>>

IdInit ==
    /\ ids = <<>>
    /\ idResult = IdCall("none", 0, NoIdArg, "", FALSE, 0, FALSE)

IdNext ==
    \/ \E cls \in {"SupplierId", "ProductId"}, value \in UuidInputs : NewId(cls, value)
    \/ \E cls \in {"SupplierId", "ProductId"} : Generate(cls)
    \/ \E this \in DOMAIN ids, other \in {IdRef(i) : i \in DOMAIN ids} \cup NonIdArgs :
           IdEquals(this, other)

\* ------------------------------------------------------------------------
\* DateTime
\* ------------------------------------------------------------------------

\* Time values are whole seconds since the epoch, or NaN (an invalid Date).
EPOCH == "1970-01-01T00:00:00.000Z"
OCT_5_2023 == "2023-10-05T14:48:00.000Z"
TimeInputs == {Num(0), Num(1696517280), NaN}
StringInputs == {EPOCH, OCT_5_2023, "not-a-date"}

\* new Date(string).getTime()
DateParse(string) ==
    CASE string = EPOCH -> Num(0)
      [] string = OCT_5_2023 -> Num(1696517280)
      [] OTHER -> NaN

\* Date.prototype.toISOString of a valid time value.
DateToISOString(time) ==
    CASE time = Num(0) -> EPOCH
      [] time = Num(1696517280) -> OCT_5_2023
      [] OTHER -> "?"

isNaN(number) == number.k = "NaN"

DateTimeObject(date) == [date |-> date]

\* this.#date.getTime()
GetTime(this) == dateHeap[dateTimes[this].date]

DateTimeCall(op, this, other, threw, ret, text, equal) ==
    [op |-> op, this |-> this, other |-> other, threw |-> threw, ret |-> ret,
     text |-> text, equal |-> equal]

\* The caller makes a Date object of its own: new Date(time).
CallerNewDate(time) ==
    /\ Len(dateHeap) < MaxDates
    /\ dateHeap' = Append(dateHeap, time)
    /\ callerDates' = callerDates \cup {Len(dateHeap) + 1}
    /\ dateTimeResult' = DateTimeCall("Date", 0, 0, FALSE, Len(dateHeap) + 1, "", FALSE)
    /\ UNCHANGED <<dateTimes, moneyVars, idVars, supplierVars>>

\* The caller calls setTime on a Date object it holds.
CallerSetTime(date, time) ==
    /\ date \in callerDates
    /\ dateHeap' = [dateHeap EXCEPT ![date] = time]
    /\ dateTimeResult' = DateTimeCall("setTime", 0, date, FALSE, 0, "", FALSE)
    /\ UNCHANGED <<callerDates, dateTimes, moneyVars, idVars, supplierVars>>

\* new DateTime(date) with a Date object: date instanceof Date, so the
\* object itself becomes this.#date.
NewDateTimeOfDate(date) ==
    /\ date \in callerDates
    /\ Len(dateTimes) < MaxDateTimes
    /\ IF isNaN(dateHeap[date])
       THEN /\ dateTimes' = dateTimes
            /\ dateTimeResult' = DateTimeCall("new", 0, date, TRUE, 0, "", FALSE)
       ELSE /\ dateTimes' = Append(dateTimes, DateTimeObject(date))
            /\ dateTimeResult' = DateTimeCall("new", 0, date, FALSE, Len(dateTimes) + 1, "", FALSE)
    /\ UNCHANGED <<dateHeap, callerDates, moneyVars, idVars, supplierVars>>

\* new DateTime(string), and new DateTime() whose default is new Date():
\* a fresh Date object of the given time value becomes this.#date.
NewDateTimeOfTime(time) ==
    /\ Len(dateTimes) < MaxDateTimes
    /\ Len(dateHeap) < MaxDates
    /\ IF isNaN(time)
       THEN /\ dateTimes' = dateTimes
            /\ dateHeap' = dateHeap
            /\ dateTimeResult' = DateTimeCall("new", 0, 0, TRUE, 0, "", FALSE)
       ELSE /\ dateHeap' = Append(dateHeap, time)
            /\ dateTimes' = Append(dateTimes, DateTimeObject(Len(dateHeap) + 1))
            /\ dateTimeResult' = DateTimeCall("new", 0, 0, FALSE, Len(dateTimes) + 1, "", FALSE)
    /\ UNCHANGED <<callerDates, moneyVars, idVars, supplierVars>>

\* this.date: the caller now holds this.#date itself.
GetDate(this) ==
    /\ callerDates' = callerDates \cup {dateTimes[this].date}
    /\ dateTimeResult' = DateTimeCall("date", this, 0, FALSE, dateTimes[this].date, "", FALSE)
    /\ UNCHANGED <<dateHeap, dateTimes, moneyVars, idVars, supplierVars>>

\* this.toISOString(): Date.prototype.toISOString throws RangeError on an
\* invalid Date.
ToISOString(this) ==
    /\ dateTimeResult' =
           IF isNaN(GetTime(this))
           THEN DateTimeCall("toISOString", this, 0, TRUE, 0, "RangeError", FALSE)
           ELSE DateTimeCall("toISOString", this, 0, FALSE, 0,
                             DateToISOString(GetTime(this)), FALSE)
    /\ UNCHANGED <<dateHeap, callerDates, dateTimes, moneyVars, idVars, supplierVars>>

\* this.equals(other) for a DateTime other
DateTimeEquals(this, other) ==
    /\ dateTimeResult' = DateTimeCall("equals", this, other, FALSE, 0, "",
                                      GetTime(this) = GetTime(other))
    /\ UNCHANGED <<dateHeap, callerDates, dateTimes, moneyVars, idVars, supplierVars>>

DateTimeInit ==
    /\ dateHeap = <<>>
    /\ callerDates = {}
    /\ dateTimes = <<>>
    /\ dateTimeResult = DateTimeCall("none", 0, 0, FALSE, 0, "", FALSE)

DateTimeNext ==
    \/ \E time \in TimeInputs : CallerNewDate(time)
    \/ \E date \in callerDates, time \in TimeInputs : CallerSetTime(date, time)
    \/ \E date \in callerDates : NewDateTimeOfDate(date)
    \/ \E string \in StringInputs : NewDateTimeOfTime(DateParse(string))
    \/ \E now \in TimeInputs \ {NaN} : NewDateTimeOfTime(now)
    \/ \E this \in DOMAIN dateTimes : GetDate(this)
    \/ \E this \in DOMAIN dateTimes : ToISOString(this)
    \/ \E this \in DOMAIN dateTimes, other \in DOMAIN dateTimes : DateTimeEquals(this, other)

\* ------------------------------------------------------------------------
\* Supplier
\* ------------------------------------------------------------------------

\* A JavaScript value handed to the Supplier: its type or class (t) and
\* the string ToString gives for it (s, a sequence of characters).
JsValue(t, s) == [t |-> t, s |-> s]
JsNull == JsValue("null", <<"n", "u", "l", "l">>)
JsUndefined == JsValue("undefined", <<"u", "n", "d", "e", "f", "i", "n", "e", "d">>)
JsString(s) == JsValue("string", s)
\* [element]: ToString of a one-element array is ToString of the element.
JsArrayOf(element) == JsValue("Array", element.s)
JsNumber42 == JsValue("number", <<"4", "2">>)
JsNumber0 == JsValue("number", <<"0">>)
JsBoolean(b) ==
    JsValue("boolean", IF b THEN <<"t", "r", "u", "e">> ELSE <<"f", "a", "l", "s", "e">>)
\* An identifier object of class cls; toString() is its UUID (abridged).
JsId(cls) == JsValue(cls, <<"5", "5", "0", "e">>)
\* Money objects; toString() is "<CODE> <amount with 2 decimals>".
MoneyUSD1 == JsValue("Money", <<"U", "S", "D", " ", "1", ".", "0", "0">>)
MoneyEUR2 == JsValue("Money", <<"E", "U", "R", " ", "2", ".", "5", "0">>)

Repeat(c, n) == [i \in 1..n |-> c]

\* !value
LogicalNot(value) ==
    JsBoolean(\/ value.t \in {"null", "undefined"}
              \/ value.t = "string" /\ value.s = <<>>
              \/ value = JsNumber0
              \/ value = JsBoolean(FALSE))

\* /^[^\s@]+@[^\s@]+\.[^\s@]+$/ on a sequence of characters
EmailRegexTest(s) ==
    \E at \in 1..Len(s), dot \in 1..Len(s) :
        /\ s[at] = "@" /\ at > 1
        /\ s[dot] = "." /\ dot > at + 1 /\ dot < Len(s)
        /\ \A i \in (1..Len(s)) \ {at} : s[i] \notin {" ", "@"}

\* isValidEmail(email): RegExp.prototype.test converts its argument with
\* ToString.
isValidEmail(email) == EmailRegexTest(email.s)

\* A parameter default of null: taken when the argument is undefined.
DefaultNull(value) == IF value.t = "undefined" THEN JsNull ELSE value

SupplierObject(id, name, contactEmail, lastOrderTotalPrice) ==
    [constructed |-> TRUE, id |-> id, name |-> name, contactEmail |-> contactEmail,
     lastOrderTotalPrice |-> lastOrderTotalPrice]
NoSupplier ==
    [constructed |-> FALSE, id |-> JsUndefined, name |-> JsUndefined,
     contactEmail |-> JsUndefined, lastOrderTotalPrice |-> JsUndefined]

\* The validation of the constructor: TRUE when it throws ValidationError.
SupplierConstructorRejects(id, name, contactEmail, lastOrderTotalPrice) ==
    \/ id.t # "SupplierId"
    \/ name.t # "string" \/ Len(name.s) < 2 \/ Len(name.s) > 100
    \/ contactEmail.t # "null" /\ (contactEmail.t # "string" \/ ~isValidEmail(contactEmail))
    \/ lastOrderTotalPrice.t # "null" /\ LogicalNot(lastOrderTotalPrice).t = "Money"

ContactEmailSetterRejectsAsConstructor(value) ==
    value.t # "null" /\ (value.t # "string" \/ ~isValidEmail(value))

\* The validation of the contactEmail setter.
ContactEmailSetterRejects(value) == value.t = "null" \/ ~isValidEmail(value)

\* The validation of the lastOrderTotalPrice setter: !value instanceof Money.
LastOrderTotalPriceSetterRejects(value) == LogicalNot(value).t = "Money"

\* The last call: its arguments as passed, whether it threw
\* ValidationError, and what it returned.
SupplierCall(op, args, threw, ret) ==
    [op |-> op, args |-> args, threw |-> threw, ret |-> ret]

\* new Supplier({id, name, contactEmail, lastOrderTotalPrice}); an omitted
\* property arrives as undefined.
NewSupplier(id, name, contactEmailArg, lastOrderTotalPriceArg) ==
    LET contactEmail == DefaultNull(contactEmailArg)
        lastOrderTotalPrice == DefaultNull(lastOrderTotalPriceArg)
        threw == SupplierConstructorRejects(id, name, contactEmail, lastOrderTotalPrice)
    IN
    /\ ~supplier.constructed
    /\ supplier' = IF threw THEN supplier
                   ELSE SupplierObject(id, name, contactEmail, lastOrderTotalPrice)
    /\ supplierResult' =
           SupplierCall("new", <<id, name, contactEmailArg, lastOrderTotalPriceArg>>,
                        threw, JsUndefined)
    /\ UNCHANGED <<moneyVars, idVars, dateTimeVars>>

SetContactEmailAssignFirst(value) ==
    /\ supplier.constructed
    /\ supplier' = [supplier EXCEPT !.contactEmail = value]
    /\ supplierResult' = SupplierCall("set contactEmail", <<value>>,
                                      ContactEmailSetterRejects(value), JsUndefined)
    /\ UNCHANGED <<moneyVars, idVars, dateTimeVars>>

\* supplier.contactEmail = value
SetContactEmail(value) ==
    /\ supplier.constructed
    /\ IF ContactEmailSetterRejects(value)
       THEN /\ supplier' = supplier
            /\ supplierResult' = SupplierCall("set contactEmail", <<value>>, TRUE, JsUndefined)
       ELSE /\ supplier' = [supplier EXCEPT !.contactEmail = value]
            /\ supplierResult' = SupplierCall("set contactEmail", <<value>>, FALSE, JsUndefined)
    /\ UNCHANGED <<moneyVars, idVars, dateTimeVars>>

\* supplier.lastOrderTotalPrice = value
SetLastOrderTotalPrice(value) ==
    /\ supplier.constructed
    /\ IF LastOrderTotalPriceSetterRejects(value)
       THEN /\ supplier' = supplier
            /\ supplierResult' = SupplierCall("set lastOrderTotalPrice", <<value>>, TRUE, JsUndefined)
       ELSE /\ supplier' = [supplier EXCEPT !.lastOrderTotalPrice = value]
            /\ supplierResult' = SupplierCall("set lastOrderTotalPrice", <<value>>, FALSE, JsUndefined)
    /\ UNCHANGED <<moneyVars, idVars, dateTimeVars>>

GetterOf(field) ==
    CASE field = "id" -> "get id"
      [] field = "name" -> "get name"
      [] field = "contactEmail" -> "get contactEmail"
      [] field = "lastOrderTotalPrice" -> "get lastOrderTotalPrice"

\* supplier.id, supplier.name, supplier.contactEmail, supplier.lastOrderTotalPrice
Get(field) ==
    /\ supplier.constructed
    /\ supplier' = supplier
    /\ supplierResult' = SupplierCall(GetterOf(field), <<>>, FALSE, supplier[field])
    /\ UNCHANGED <<moneyVars, idVars, dateTimeVars>>

ValidEmail1 == JsString(<<"a", "@", "b", ".", "c">>)
ValidEmail2 == JsString(<<"a", ".", "b", "@", "c", ".", "d", ".", "e">>)
IdInputs ==
    {JsId("SupplierId"), JsId("ProductId"), JsString(<<"5", "5", "0", "e">>), JsUndefined}
NameInputs ==
    {JsString(<<"A">>), JsString(<<"A", "c">>), JsString(Repeat("A", 100)),
     JsString(Repeat("A", 101)), JsNumber42, JsUndefined}
EmailInputs ==
    {JsNull, JsUndefined, ValidEmail1, ValidEmail2,
     JsString(<<"b", "a", "d", "-", "e", "m", "a", "i", "l">>),
     JsString(<<"a", " ", "b", "@", "c", ".", "d">>),
     JsString(<<"a", "@", "b">>), JsString(<<"a", "@", "@", "b", ".", "c">>),
     JsString(<<>>), JsArrayOf(ValidEmail1), JsNumber42}
PriceInputs ==
    {JsNull, JsUndefined, MoneyUSD1, MoneyEUR2,
     JsString(<<"1", "0", "0">>), JsNumber0, JsNumber42}

SupplierInit ==
    /\ supplier = NoSupplier
    /\ supplierResult = SupplierCall("none", <<>>, FALSE, JsUndefined)

SupplierNext ==
    \/ \E id \in IdInputs, name \in NameInputs, contactEmail \in EmailInputs,
          lastOrderTotalPrice \in PriceInputs :
           NewSupplier(id, name, contactEmail, lastOrderTotalPrice)
    \/ \E value \in EmailInputs : SetContactEmail(value)
    \/ \E value \in PriceInputs : SetLastOrderTotalPrice(value)
    \/ \E field \in {"id", "name", "contactEmail", "lastOrderTotalPrice"} : Get(field)

\* ------------------------------------------------------------------------
\* Specifications
\* ------------------------------------------------------------------------

Init == MoneyInit /\ IdInit /\ DateTimeInit /\ SupplierInit
Next == MoneyNext \/ IdNext \/ DateTimeNext \/ SupplierNext
Spec == Init /\ [][Next]_vars
MoneySpec == Init /\ [][MoneyNext]_vars
IdSpec == Init /\ [][IdNext]_vars
DateTimeSpec == Init /\ [][DateTimeNext]_vars
SupplierSpec == Init /\ [][SupplierNext]_vars

\* ------------------------------------------------------------------------
\* Money: properties
\* ------------------------------------------------------------------------

\* A step that is a call of the named Money operation.
MoneyStep(op) == moneyResult'.op = op /\ moneyVars' # moneyVars

\* r thousandths rounded to whole hundredths, half up.
RoundedToHundredths(r) == ((r + 5) \div 10) * 10

\* No Money allocated before the step differs after it.
MoneysUntouched == \A i \in DOMAIN moneys : i \in DOMAIN moneys' /\ moneys'[i] = moneys[i]

\* The step returned a newly allocated Money of this amount and currency code.
ReturnedNew(amount, code) ==
    /\ ~moneyResult'.threw
    /\ moneyResult'.ret = Len(moneys) + 1
    /\ Len(moneys') = Len(moneys) + 1
    /\ moneys'[moneyResult'.ret].amount = Num(amount)
    /\ moneys'[moneyResult'.ret].currency = CurrencyObject(code)

ThrewNothingAllocated == moneyResult'.threw /\ moneys' = moneys

AddMismatch(call) ==
    call.other.t # "Money"
        \/ moneys[call.other.ref].currency.code # moneys[call.this].currency.code

AddSum(call) == moneys[call.this].amount.v + moneys[call.other.ref].amount.v

\* C3 as stated: add fails with ValidationError whenever other is not a
\* Money or its currency code differs from the receiver's; otherwise it
\* returns a new Money with the receiver's currency and the sum of both
\* amounts rounded to 2 decimals; the operands are unchanged in both cases.
C3_AddAsStated ==
    [][MoneyStep("add") =>
          /\ MoneysUntouched
          /\ IF AddMismatch(moneyResult')
             THEN ThrewNothingAllocated
             ELSE ReturnedNew(RoundedToHundredths(AddSum(moneyResult')),
                              moneys[moneyResult'.this].currency.code)]_vars

\* C3 amended: add fails with ValidationError whenever other is not a Money
\* or its currency code differs from the receiver's, and also when the sum
\* of the two amounts exceeds the largest finite number; otherwise it
\* returns a new Money with the receiver's currency and the sum of both
\* amounts rounded to 2 decimals; the operands are unchanged in every case.
C3_AddContract ==
    [][MoneyStep("add") =>
          /\ MoneysUntouched
          /\ IF AddMismatch(moneyResult')
             THEN ThrewNothingAllocated
             ELSE IF AddSum(moneyResult') > MAX_VALUE
             THEN ThrewNothingAllocated
             ELSE ReturnedNew(RoundedToHundredths(AddSum(moneyResult')),
                              moneys[moneyResult'.this].currency.code)]_vars

\* C3 witness: 1.00 + 1.01 of the same currency was added and returned 2.01.
C3_Witness ==
    /\ moneyResult.op = "add" /\ ~moneyResult.threw
    /\ moneyResult.other.t = "Money"
    /\ moneys[moneyResult.this].amount = Num(1000)
    /\ moneys[moneyResult.other.ref].amount = Num(1010)
    /\ moneys[moneyResult.ret].amount = Num(2010)

MoneyWellFormed(m) ==
    /\ m.amount.t = "number" /\ m.amount.k = "finite"
    /\ m.amount.v >= 0 /\ m.amount.v <= MAX_VALUE
    /\ m.amount.v % 10 = 0
    /\ m.currency.t = "Currency"
    /\ m.currency.code \in {"USD", "EUR", "GBP", "JPY"}

\* C4: every Money reachable by construction, add and multiply has a
\* finite amount >= 0 that is a whole number of hundredths and a Currency
\* whose code is one of USD, EUR, GBP, JPY; and no operation changes the
\* amount or currency of an already constructed Money.
C4_MoneyInvariant ==
    /\ [](\A i \in DOMAIN moneys : MoneyWellFormed(moneys[i]))
    /\ [][MoneysUntouched]_vars

\* C4 witness: a Money made by multiply whose product (1.01 * 1.5 = 1.515)
\* had to be rounded, next to the Money it was made from.
C4_Witness ==
    /\ moneyResult.op = "multiply" /\ ~moneyResult.threw
    /\ moneys[moneyResult.this].amount = Num(1010)
    /\ moneys[moneyResult.ret].amount = Num(1520)

MultiplyInvalid(call) ==
    call.number.t # "number" \/ call.number.k # "finite" \/ call.number.v < 0

MultiplyProduct(call) == (moneys[call.this].amount.v * call.number.v) \div 1000

C6_IdEquals ==
    idResult.op = "equals" =>
        (idResult.equal <=>
            /\ idResult.other.t = "ref"
            /\ ids[idResult.other.ref].cls = ids[idResult.this].cls
            /\ ids[idResult.other.ref].value = ids[idResult.this].value)

\* C6 witness: a SupplierId was compared with a ProductId of the same UUID.
C6_Witness ==
    /\ idResult.op = "equals" /\ idResult.other.t = "ref"
    /\ ids[idResult.this].cls = "SupplierId"
    /\ ids[idResult.other.ref].cls = "ProductId"
    /\ ids[idResult.this].value = ids[idResult.other.ref].value
    /\ ~idResult.equal

\* ------------------------------------------------------------------------
\* DateTime: properties
\* ------------------------------------------------------------------------

\* C7: a DateTime is immutable after construction: whatever the caller
\* does with the Date object it passed to the constructor or with the one
\* the date accessor returned, the instant of every constructed DateTime is
\* unchanged and is a valid (non-NaN) point in time.
C7_DateTimeImmutable ==
    [][\A this \in DOMAIN dateTimes :
          /\ dateHeap'[dateTimes'[this].date] = dateHeap[dateTimes[this].date]
          /\ dateHeap'[dateTimes'[this].date].k # "NaN"]_vars

\* ------------------------------------------------------------------------
\* Supplier: properties
\* ------------------------------------------------------------------------

\* C1: in every reachable state of a Supplier, lastOrderTotalPrice is
\* either null or a Money instance (the constructor and the setter reject
\* every other value).
C1_PriceNullOrMoney ==
    supplier.constructed => supplier.lastOrderTotalPrice.t \in {"null", "Money"}

\* C2: in every reachable state of a Supplier, contactEmail is either null
\* or a string that is a syntactically valid email, and a setter call is
\* rejected exactly when its argument is no valid email string.
C2_EmailNullOrValidString ==
    /\ supplier.constructed =>
           \/ supplier.contactEmail.t = "null"
           \/ supplier.contactEmail.t = "string" /\ EmailRegexTest(supplier.contactEmail.s)
    /\ supplierResult.op = "set contactEmail" =>
           (supplierResult.threw <=>
               ~(supplierResult.args[1].t = "string" /\ EmailRegexTest(supplierResult.args[1].s)))

NullOrOmitted(value) == value.t \in {"null", "undefined"}

\* C8: construction succeeds if and only if id is a SupplierId, name is a
\* string of length 2 to 100, contactEmail is null/omitted or a valid email
\* string, and lastOrderTotalPrice is null/omitted or a Money; on a
\* violation no Supplier is created, and on success the fields hold the
\* supplied values (null for the omitted optional ones).
C8_ConstructionIff ==
    supplierResult.op = "new" =>
        LET id == supplierResult.args[1]
            name == supplierResult.args[2]
            contactEmail == supplierResult.args[3]
            lastOrderTotalPrice == supplierResult.args[4]
            valid ==
                /\ id.t = "SupplierId"
                /\ name.t = "string" /\ Len(name.s) >= 2 /\ Len(name.s) <= 100
                /\ \/ NullOrOmitted(contactEmail)
                   \/ contactEmail.t = "string" /\ EmailRegexTest(contactEmail.s)
                /\ \/ NullOrOmitted(lastOrderTotalPrice)
                   \/ lastOrderTotalPrice.t = "Money"
        IN  /\ supplierResult.threw <=> ~valid
            /\ supplierResult.threw => ~supplier.constructed
            /\ ~supplierResult.threw =>
                   /\ supplier.constructed
                   /\ supplier.id = id /\ supplier.name = name
                   /\ supplier.contactEmail =
                          (IF NullOrOmitted(contactEmail) THEN JsNull ELSE contactEmail)
                   /\ supplier.lastOrderTotalPrice =
                          (IF NullOrOmitted(lastOrderTotalPrice) THEN JsNull
                           ELSE lastOrderTotalPrice)

\* C9: a setter call that fails leaves all four fields as they were, and
\* one that succeeds changes only its own field: id and name never change
\* after construction, the contactEmail setter never changes
\* lastOrderTotalPrice and the lastOrderTotalPrice setter never changes
\* contactEmail.
C9_SetterFrame ==
    [][supplier.constructed =>
          /\ supplier'.constructed
          /\ supplier'.id = supplier.id /\ supplier'.name = supplier.name
          /\ supplierResult'.threw => supplier' = supplier
          /\ supplierResult'.op = "set contactEmail" =>
                 supplier'.lastOrderTotalPrice = supplier.lastOrderTotalPrice
          /\ supplierResult'.op = "set lastOrderTotalPrice" =>
                 supplier'.contactEmail = supplier.contactEmail]_vars

\* C9 witness: the contactEmail setter has just rejected 'bad-email' on a
\* Supplier that holds an email and a price.
C9_Witness ==
    /\ supplier.constructed
    /\ supplierResult.op = "set contactEmail" /\ supplierResult.threw
    /\ supplierResult.args = <<JsString(<<"b", "a", "d", "-", "e", "m", "a", "i", "l">>)>>
    /\ supplier.contactEmail = ValidEmail2
    /\ supplier.lastOrderTotalPrice.t = "Money"

\* C10: once contactEmail is non-null it stays non-null under every
\* sequence of setter calls.
C10_EmailNeverCleared ==
    [][supplier.constructed /\ supplier.contactEmail.t # "null" =>
          supplier'.contactEmail.t # "null"]_vars

\* C10 witness: the setter was called with null on a Supplier whose
\* contactEmail is set, and threw.
C10_Witness ==
    /\ supplier.constructed
    /\ supplierResult.op = "set contactEmail" /\ supplierResult.threw
    /\ supplierResult.args = <<JsNull>>
    /\ supplier.contactEmail = ValidEmail1

====
